---------------------------- MODULE Spec2Model ----------------------------
(***************************************************************************)
(* Bayesian decision tree (bayesian_decision_tree/base.py and              *)
(* base_perpendicular.py): fit, prune, predict, prediction_paths and       *)
(* feature_importance of one root node, as a state machine.                *)
(*                                                                         *)
(* Conventions.                                                            *)
(*  - A Python None is the empty tuple <<>>; a set scalar field v is <<v>>.*)
(*  - Rows, positions in sorted index arrays and columns are numbered from *)
(*    1 here and from 0 in the code; split_dimension keeps the code's      *)
(*    0-based numbering (-1 on a leaf), so column dim is row[dim + 1].     *)
(*  - split_value is kept in halves: the field holds 2 * split_value, so   *)
(*    the code's  x < split_value  reads  2 * x < split_value  here.       *)
(*  - Log-likelihoods are fixed-point, in units of 1/1000 nat.             *)
(*  - Feature matrices given to fit are np.int8 arrays (a dtype that       *)
(*    _ensure_float64 returns unchanged); query matrices are np.float64.   *)
(***************************************************************************)
EXTENDS Integers, Sequences, FiniteSets, TLC

VARIABLES root, result, n_fits

vars == <<root, result, n_fits>>

----------------------------------------------------------------------------
(* Bounds of the model *)

\* largest number of rows of a training matrix
MaxRows == 3

\* largest number of columns of a training or query matrix
MaxDim == 2

\* largest number of entries (rows times columns) of the training matrix of
\* the first fit of a root
MaxCells == 4

\* largest number of entries of the training matrix of a later fit
MaxRefitCells == 2

\* largest number of calls of fit on the root
MaxFits == 2

\* largest number of entries of a query matrix
MaxQueryCells == 2

\* width of the integer element type of the training matrices (np.int8)
IntBits == 8

None == <<>>

Some(v) == <<v>>

\* a float64 NaN in a query matrix: every ordered comparison with it is false
NaN == 9999

\* feature values of training matrices (int8)
TrainValues == {2, 60, 100}

\* feature values of query matrices (float64)
QueryValues == {1, 80, NaN}

\* the prior arrays the root may be constructed with (Dirichlet pseudo-counts)
Priors == {<<1, 1>>, <<2, 1>>}

\* the values of delta passed to fit; 2 is outside [0.0, 1.0]
Deltas == {0, 1, 2}

----------------------------------------------------------------------------
(* Arithmetic helpers *)

Max(a, b) == IF a >= b THEN a ELSE b

\* a function over 1..n as the tuple of its values
Tuple(f) == f \o <<>>

RECURSIVE SumSeq(_)
SumSeq(s) == IF s = <<>> THEN 0 ELSE Head(s) + SumSeq(Tail(s))

\* the value of a numpy integer scalar of IntBits bits after an overflowing
\* addition or subtraction (two's complement wrap-around)
Wrap(v) == ((v + 2^(IntBits - 1)) % 2^IntBits) - 2^(IntBits - 1)

\* an argmax that takes the last maximal entry
ArgMaxLast(s) == CHOOSE i \in 1..Len(s) :
                    /\ \A j \in 1..Len(s) : s[j] <= s[i]
                    /\ \A j \in (i + 1)..Len(s) : s[j] < s[i]

\* np.argmax: position of the first maximal entry
ArgMax(s) == CHOOSE i \in 1..Len(s) :
                /\ \A j \in 1..Len(s) : s[j] <= s[i]
                /\ \A j \in 1..(i - 1) : s[j] < s[i]

\* y[indices]: numpy fancy indexing of a vector by a sequence of indices
Take(y, indices) == Tuple([p \in 1..Len(indices) |-> y[indices[p]]])

\* np.argsort of column dim (0-based) of X; equal values keep their row order
ArgSort(X, dim) ==
    LET n == Len(X)
        Before(i, j) == \/ X[i][dim + 1] < X[j][dim + 1]
                        \/ (X[i][dim + 1] = X[j][dim + 1] /\ i < j)
        Rank(i) == 1 + Cardinality({j \in 1..n : Before(j, i)})
    IN Tuple([p \in 1..n |-> CHOOSE i \in 1..n : Rank(i) = p])

----------------------------------------------------------------------------
(* Model family: categorical targets with a Dirichlet prior.  The concrete *)
(* classes that implement BaseTree's abstract methods are not part of the  *)
(* sources at hand; they are modelled from the specification's             *)
(* description of the model family.                                        *)

\* round(1000 * ln(m)) for m = 1..40
Ln == <<0, 693, 1099, 1386, 1609, 1792, 1946, 2079, 2197, 2303,
        2398, 2485, 2565, 2639, 2708, 2773, 2833, 2890, 2944, 2996,
        3045, 3091, 3135, 3178, 3219, 3258, 3296, 3332, 3367, 3401,
        3434, 3466, 3497, 3526, 3555, 3584, 3611, 3638, 3664, 3689>>

\* round(1000 * ln(partition_prior)) for partition_prior = 0.9
LnPartitionPrior == -105

\* round(1000 * ln(1 - partition_prior^(1 + level))) for level = 0..7
LnOneMinusPartitionPrior == <<-2303, -1661, -1306, -1067, -893, -758, -651, -563>>

\* ln Gamma(n) = Ln[1] + ... + Ln[n - 1], tabulated for n = 1..40
LnGammaTab == <<0, 0, 693, 1792, 3178, 4787, 6579, 8525, 10604, 12801,
                15104, 17502, 19987, 22552, 25191, 27899, 30672, 33505, 36395, 39339,
                42335, 45380, 48471, 51606, 54784, 58003, 61261, 64557, 67889, 71256,
                74657, 78091, 81557, 85054, 88580, 92135, 95719, 99330, 102968, 106632>>

LnGamma(n) == LnGammaTab[n]

\* ln of the multivariate beta function of an array of integer pseudo-counts
MultivariateBetaLn(a) ==
    SumSeq(Tuple([i \in 1..Len(a) |-> LnGamma(a[i])])) - LnGamma(SumSeq(a))

\* class counts of a target vector, one entry per class of the prior
ClassCounts(prior, y) ==
    Tuple([c \in 1..Len(prior) |-> Cardinality({p \in 1..Len(y) : y[p] = c - 1})])

\* the Dirichlet posterior of self.prior after observing y, weighted by delta
ComputePosterior(self, y, delta) ==
    IF delta = 0
    THEN self.prior
    ELSE LET k == ClassCounts(self.prior, y)
         IN Tuple([c \in 1..Len(self.prior) |-> self.prior[c] + delta * k[c]])

\* ln p(y | prior) of the targets of one leaf
LogPData(self, y) ==
    MultivariateBetaLn(ComputePosterior(self, y, 1)) - MultivariateBetaLn(self.prior)

ComputeLogPDataNoSplit(self, y) ==
    LnOneMinusPartitionPrior[self.level + 1] + LogPData(self, y)

\* one log-likelihood per candidate position of split_indices: the first s
\* sorted targets go to the left leaf, the remaining ones to the right leaf
ComputeLogPDataSplit(self, y_sorted, split_indices, n_dim) ==
    LET n_splits == Len(split_indices)
        log_p_prior == (1 + self.level) * LnPartitionPrior - Ln[n_splits * n_dim]
    IN Tuple([i \in 1..n_splits |->
          log_p_prior
          + LogPData(self, SubSeq(y_sorted, 1, split_indices[i]))
          + LogPData(self, SubSeq(y_sorted, split_indices[i] + 1, Len(y_sorted)))])

\* the predicted class (0-based) of a fitted node
PredictLeaf(self) == ArgMax(self.posterior) - 1

----------------------------------------------------------------------------
(* Nodes *)

\* BaseTree.__init__ followed by BasePerpendicularTree.__init__;
\* active is the set of training rows the node was fitted on (the rows of
\* sort_indices_by_dim in _fit), kept for stating the claims
NewNode(prior, level) ==
    [prior |-> prior, level |-> level,
     n_dim |-> None, posterior |-> None, n_data |-> None,
     child1 |-> None, child2 |-> None,
     log_p_data_no_split |-> None, best_log_p_data_split |-> None,
     split_dimension |-> -1, split_value |-> None, split_feature_name |-> None,
     active |-> {}]

\* an erasure that forgets the two recorded likelihoods
EraseChildrenOnly(self) ==
    [self EXCEPT !.child1 = None, !.child2 = None]

\* _erase_split_info_base
EraseSplitInfoBase(self) ==
    [self EXCEPT !.child1 = None, !.child2 = None,
                 !.log_p_data_no_split = None, !.best_log_p_data_split = None]

\* _erase_split_info
EraseSplitInfo(self) ==
    [self EXCEPT !.split_dimension = -1, !.split_value = None,
                 !.split_feature_name = None]

\* is_leaf on a fitted node (on an unfitted node it raises, see IsFitted)
IsLeaf(self) == self.split_value = None

IsFitted(self) == self.posterior # None

----------------------------------------------------------------------------
(* Fitting *)

\* feature_names when none are given: 'x0', 'x1', ...
DefaultFeatureNames(d) == SubSeq(<<"x0", "x1", "x2", "x3">>, 1, d)

\* split_indices of one dimension: the positions s (number of sorted rows
\* going left) where the sorted feature value changes
SplitIndices(X_dim_sorted) ==
    LET n == Len(X_dim_sorted)
        legal == {s \in 1..(n - 1) : Wrap(X_dim_sorted[s + 1] - X_dim_sorted[s]) # 0}
    IN Tuple([i \in 1..Cardinality(legal) |->
          CHOOSE s \in legal : Cardinality({t \in legal : t < s}) = i - 1])

\* the loop over the dimensions dim..n_dim-1 of _fit; best is the record of
\* best_log_p_data_split, best_split_index and best_split_dimension so far
RECURSIVE SearchSplits(_, _, _, _, _, _)
SearchSplits(self, X, y, sort_indices_by_dim, dim, best) ==
    IF dim >= Len(sort_indices_by_dim)
    THEN best
    ELSE LET sort_indices == sort_indices_by_dim[dim + 1]
             X_dim_sorted ==
                 Tuple([p \in 1..Len(sort_indices) |-> X[sort_indices[p]][dim + 1]])
             split_indices == SplitIndices(X_dim_sorted)
             y_sorted == Take(y, sort_indices)
             log_p_data_split ==
                 ComputeLogPDataSplit(self, y_sorted, split_indices, Len(sort_indices_by_dim))
             i_max == ArgMax(log_p_data_split)
         IN IF Len(split_indices) = 0
            THEN SearchSplits(self, X, y, sort_indices_by_dim, dim + 1, best)
            ELSE IF log_p_data_split[i_max] > best.log_p
                 THEN SearchSplits(self, X, y, sort_indices_by_dim, dim + 1,
                                   [log_p |-> log_p_data_split[i_max],
                                    index |-> split_indices[i_max],
                                    dimension |-> dim])
                 ELSE SearchSplits(self, X, y, sort_indices_by_dim, dim + 1, best)

\* the midpoint 0.5 * (a + b) of two int8 scalars, in halves: the sum is
\* formed in the element type and wraps around
SplitValue(a, b) == Wrap(a + b)

\* BasePerpendicularTree._fit with sort_indices_by_dim given
RECURSIVE FitNode(_, _, _, _, _, _)
FitNode(self, X, y, delta, feature_names, sort_indices_by_dim) ==
    LET n_data == Len(sort_indices_by_dim[1])
        n_dim == Len(X[1])
        y_active == Take(y, sort_indices_by_dim[1])
        log_p_data_no_split == ComputeLogPDataNoSplit(self, y_active)
        best == SearchSplits(self, X, y, sort_indices_by_dim, 0,
                             [log_p |-> log_p_data_no_split, index |-> -1, dimension |-> -1])
        indices1 == SubSeq(sort_indices_by_dim[best.dimension + 1], 1, best.index)
        indices2 == SubSeq(sort_indices_by_dim[best.dimension + 1], best.index + 1, n_data)
        active1 == {indices1[p] : p \in 1..Len(indices1)}
        active2 == {indices2[p] : p \in 1..Len(indices2)}
        In1(i) == i \in active1
        In2(i) == i \in active2
        sort_indices_by_dim_1 ==
            Tuple([d \in 1..Len(sort_indices_by_dim) |->
                     SelectSeq(sort_indices_by_dim[d], In1)])
        sort_indices_by_dim_2 ==
            Tuple([d \in 1..Len(sort_indices_by_dim) |->
                     SelectSeq(sort_indices_by_dim[d], In2)])
        n_data1 == Len(sort_indices_by_dim_1[1])
        n_data2 == Len(sort_indices_by_dim_2[1])
        y1 == Take(y, indices1)
        y2 == Take(y, indices2)
        prior_child1 == IF delta # 0 THEN ComputePosterior(self, y1, delta) ELSE self.prior
        prior_child2 == IF delta # 0 THEN ComputePosterior(self, y2, delta) ELSE self.prior
        new1 == NewNode(prior_child1, self.level + 1)
        new2 == NewNode(prior_child2, self.level + 1)
        Unique(t) == {t[p] : p \in 1..Len(t)}
        child1 == IF n_data1 > 1 /\ Cardinality(Unique(y1)) > 1
                  THEN FitNode(new1, X, y, delta, feature_names, sort_indices_by_dim_1)
                  ELSE [new1 EXCEPT !.posterior = ComputePosterior(self, y1, 1),
                                    !.n_data = Some(n_data1),
                                    !.active = active1]
        child2 == IF n_data2 > 1 /\ Cardinality(Unique(y2)) > 1
                  THEN FitNode(new2, X, y, delta, feature_names, sort_indices_by_dim_2)
                  ELSE [new2 EXCEPT !.posterior = ComputePosterior(self, y2, 1),
                                    !.n_data = Some(n_data2),
                                    !.active = active2]
        split == IF best.index > 0
                 THEN [self EXCEPT
                         !.split_dimension = best.dimension,
                         !.split_feature_name = Some(feature_names[best.dimension + 1]),
                         !.split_value =
                             Some(SplitValue(X[indices1[Len(indices1)]][best.dimension + 1],
                                             X[indices2[1]][best.dimension + 1])),
                         !.log_p_data_no_split = Some(log_p_data_no_split),
                         !.best_log_p_data_split = Some(best.log_p),
                         !.child1 = Some(child1),
                         !.child2 = Some(child2)]
                 ELSE self
    IN [split EXCEPT !.n_dim = Some(n_dim),
                     !.n_data = Some(n_data),
                     !.posterior = ComputePosterior(self, y_active, 1),
                     !.active = {sort_indices_by_dim[1][p] : p \in 1..n_data}]

\* the first call of _fit (sort_indices_by_dim is None): argsort per dimension
FitTree(self, X, y, delta, feature_names) ==
    FitNode(self, X, y, delta, feature_names,
            Tuple([d \in 1..Len(X[1]) |-> ArgSort(X, d - 1)]))


----------------------------------------------------------------------------
(* Depth, leaf count and pruning *)

RECURSIVE UpdateDepth(_, _)
UpdateDepth(self, depth) ==
    IF IsLeaf(self)
    THEN Max(depth, self.level)
    ELSE IF self.child1 # None
         THEN UpdateDepth(self.child2[1], UpdateDepth(self.child1[1], depth))
         ELSE depth

GetDepth(self) == UpdateDepth(self, 0)

RECURSIVE UpdateNLeaves(_, _)
UpdateNLeaves(self, n_leaves) ==
    IF IsLeaf(self)
    THEN n_leaves + 1
    ELSE IF self.child1 # None
         THEN UpdateNLeaves(self.child2[1], UpdateNLeaves(self.child1[1], n_leaves))
         ELSE n_leaves

GetNLeaves(self) == UpdateNLeaves(self, 0)

RECURSIVE Prune(_)

\* one pass of _prune over a node that is not a leaf: the body of _prune
\* between the two measurements of depth and leaf count
PrunePass(self) ==
    IF IsLeaf(self.child1[1]) /\ IsLeaf(self.child2[1])
    THEN IF PredictLeaf(self.child1[1]) = PredictLeaf(self.child2[1])
         THEN EraseSplitInfo(EraseSplitInfoBase(self))
         ELSE self
    ELSE [self EXCEPT !.child1 = Some(Prune(self.child1[1])),
                      !.child2 = Some(Prune(self.child2[1]))]

\* _prune without the repetition after a pass that changed the tree
PruneOnce(self) ==
    IF IsLeaf(self) THEN self ELSE PrunePass(self)

\* BaseTree._prune on a fitted node
Prune(self) ==
    IF IsLeaf(self)
    THEN self
    ELSE LET pruned == PrunePass(self)
         IN IF GetDepth(self) # GetDepth(pruned) \/ GetNLeaves(self) # GetNLeaves(pruned)
            THEN Prune(pruned)
            ELSE pruned

----------------------------------------------------------------------------
(* Queries *)

\* an exception raised inside a query
Failure(error) == [status |-> error, value |-> None]

Success(v) == [status |-> "ok", value |-> v]

\* X[indices]: the rows of X at the given positions
Rows(X, indices) == Tuple([p \in 1..Len(indices) |-> X[indices[p]]])

\* the positions 1..n that satisfy Test, in increasing order (np.where(...)[0])
Where(n, Test(_)) ==
    LET Keep(i) == Test(i)
    IN SelectSeq(Tuple([i \in 1..n |-> i]), Keep)

\* _compute_child1_and_child2_indices for a dense X whose rows have more than
\* split_dimension columns (X[:, split_dimension] raises IndexError otherwise)
ComputeChild1AndChild2Indices(self, X) ==
    LET X_split == Tuple([i \in 1..Len(X) |-> X[i][self.split_dimension + 1]])
        Lt(i) == X_split[i] # NaN /\ 2 * X_split[i] < self.split_value[1]
        Ge(i) == X_split[i] # NaN /\ 2 * X_split[i] >= self.split_value[1]
    IN <<Where(Len(X), Lt), Where(Len(X), Ge)>>

\* predictions_merged[indices] = predictions on an array of n entries
Assign(merged, indices, predictions) ==
    [i \in 1..Len(merged) |->
       IF \E p \in 1..Len(indices) : indices[p] = i
       THEN predictions[CHOOSE p \in 1..Len(indices) : indices[p] = i]
       ELSE merged[i]]

\* np.zeros(n)
Zeros(n) == Tuple([i \in 1..n |-> 0])

\* BaseTree._predict with predict_class=True.  The value is the array of
\* predictions, or None when an internal node routes no row to a child.
RECURSIVE PredictNode(_, _)
PredictNode(self, X) ==
    IF ~IsFitted(self)
    THEN Failure("ValueError")
    ELSE IF IsLeaf(self)
    THEN Success(Tuple([i \in 1..Len(X) |-> PredictLeaf(self)]))
    ELSE IF self.split_dimension + 1 > Len(X[1])
    THEN Failure("IndexError")
    ELSE
      LET indices == ComputeChild1AndChild2Indices(self, X)
          indices1 == indices[1]
          indices2 == indices[2]
          predictions1 == PredictNode(self.child1[1], Rows(X, indices1))
          predictions2 == PredictNode(self.child2[1], Rows(X, indices2))
          merged1 == IF Len(indices1) > 0
                     THEN Some(Tuple(Assign(Zeros(Len(X)), indices1, predictions1.value)))
                     ELSE None
          merged2 == IF Len(indices2) > 0
                     THEN Some(Tuple(Assign(IF merged1 = None THEN Zeros(Len(X)) ELSE merged1[1],
                                            indices2, predictions2.value)))
                     ELSE merged1
      IN IF Len(indices1) > 0 /\ predictions1.status # "ok"
         THEN predictions1
         ELSE IF Len(indices1) > 0 /\ predictions1.value = None
         THEN Failure("TypeError")
         ELSE IF Len(indices2) > 0 /\ predictions2.status # "ok"
         THEN predictions2
         ELSE IF Len(indices2) > 0 /\ predictions2.value = None
         THEN Failure("TypeError")
         ELSE IF merged2 = None THEN Success(None) ELSE Success(merged2[1])

\* _ensure_is_fitted without the comparison of X.shape[1] with n_dim
EnsureHasPosterior(self, X) ==
    IF self.posterior = None THEN "ValueError" ELSE "ok"

\* _ensure_is_fitted(X): the error it raises, or "ok"
EnsureIsFitted(self, X) ==
    IF self.posterior = None
    THEN "ValueError"
    ELSE IF Some(Len(X[1])) # self.n_dim
    THEN "ValueError"
    ELSE "ok"

\* BaseTree.predict(X)
Predict(self, X) ==
    IF EnsureIsFitted(self, X) # "ok"
    THEN Failure(EnsureIsFitted(self, X))
    ELSE LET prediction == PredictNode(self, X)
         IN IF prediction.status = "ok" /\ prediction.value = None
            THEN Success(Zeros(Len(X)))
            ELSE prediction

\* a step that records the direction the wrong way round
PathStepFlipped(self, went_right) ==
    <<self.split_dimension, self.split_feature_name, self.split_value, ~went_right>>

\* the step a row takes at an internal node: (split dimension, split feature
\* name, split value, True if the row went to child2)
PathStep(self, went_right) ==
    <<self.split_dimension, self.split_feature_name, self.split_value, went_right>>

\* _update_prediction_paths: paths holds the lists of the rows of X; the
\* value is the lists after the steps of this subtree were appended
RECURSIVE UpdatePredictionPaths(_, _, _)
UpdatePredictionPaths(self, X, paths) ==
    IF ~IsFitted(self)
    THEN Failure("ValueError")
    ELSE IF IsLeaf(self)
    THEN Success(paths)
    ELSE IF self.split_dimension + 1 > Len(X[1])
    THEN Failure("IndexError")
    ELSE
      LET indices == ComputeChild1AndChild2Indices(self, X)
          indices1 == indices[1]
          indices2 == indices[2]
          Step(went_right) == PathStep(self, went_right)
          In1(i) == \E p \in 1..Len(indices1) : indices1[p] = i
          In2(i) == \E p \in 1..Len(indices2) : indices2[p] = i
          appended == Tuple([i \in 1..Len(paths) |->
                               IF In1(i) THEN Append(paths[i], Step(FALSE))
                               ELSE IF In2(i) THEN Append(paths[i], Step(TRUE))
                               ELSE paths[i]])
          descend1 == Len(indices1) > 0 /\ ~IsLeaf(self.child1[1])
          descend2 == Len(indices2) > 0 /\ ~IsLeaf(self.child2[1])
          paths1 == UpdatePredictionPaths(self.child1[1], Rows(X, indices1),
                                          Rows(appended, indices1))
          after1 == IF descend1
                    THEN Tuple(Assign(appended, indices1, paths1.value))
                    ELSE appended
          paths2 == UpdatePredictionPaths(self.child2[1], Rows(X, indices2),
                                          Rows(after1, indices2))
      IN IF descend1 /\ paths1.status # "ok"
         THEN paths1
         ELSE IF descend2 /\ paths2.status # "ok"
         THEN paths2
         ELSE IF descend2
         THEN Success(Tuple(Assign(after1, indices2, paths2.value)))
         ELSE Success(after1)

\* BasePerpendicularTree.prediction_paths(X)
PredictionPaths(self, X) ==
    IF EnsureIsFitted(self, X) # "ok"
    THEN Failure(EnsureIsFitted(self, X))
    ELSE UpdatePredictionPaths(self, X, Tuple([i \in 1..Len(X) |-> <<>>]))

\* _update_feature_importance: the accumulator after this subtree was added,
\* or the IndexError of feature_importance[split_dimension]
RECURSIVE UpdateFeatureImportance(_, _)
UpdateFeatureImportance(self, feature_importance) ==
    IF ~IsFitted(self)
    THEN Failure("ValueError")
    ELSE IF IsLeaf(self)
    THEN Success(feature_importance)
    ELSE IF self.split_dimension + 1 > Len(feature_importance)
    THEN Failure("IndexError")
    ELSE
      LET log_p_gain == self.best_log_p_data_split[1] - self.log_p_data_no_split[1]
          added == [feature_importance EXCEPT ![self.split_dimension + 1] = @ + log_p_gain]
          after1 == UpdateFeatureImportance(self.child1[1], added)
      IN IF self.child1 = None
         THEN Success(added)
         ELSE IF after1.status # "ok"
         THEN after1
         ELSE UpdateFeatureImportance(self.child2[1], after1.value)

\* BaseTree.feature_importance().  The value is the accumulated vector and
\* its sum: entry k of the returned array is sums[k] / total, and every entry
\* is NaN when total is 0.
FeatureImportance(self) ==
    IF self.posterior = None
    THEN Failure("ValueError")
    ELSE LET sums == UpdateFeatureImportance(self, Zeros(self.n_dim[1]))
         IN IF sums.status # "ok"
            THEN sums
            ELSE Success([sums |-> sums.value, total |-> SumSeq(sums.value)])

----------------------------------------------------------------------------
(* Inputs *)

Classes(prior) == 0..(Len(prior) - 1)

\* the training sets (X, y) given to fit: X an n x d int8 matrix, y a vector
\* of n class labels
TrainSets(prior, cells) ==
    UNION {UNION {[X : [1..n -> [1..d -> TrainValues]], y : [1..n -> Classes(prior)]]
                  : d \in {e \in 1..MaxDim : n * e <= cells}} : n \in 1..MaxRows}

\* the query matrices given to predict and prediction_paths
QueryInputs ==
    UNION {UNION {[1..n -> [1..d -> QueryValues]]
                  : d \in {e \in 1..MaxDim : n * e <= MaxQueryCells}}
           : n \in 1..MaxQueryCells}

----------------------------------------------------------------------------
(* The state machine *)

\* no call has returned a value that the caller has yet to take
NoResult == [op |-> "none", status |-> "none", value |-> None]

Raised(op, error) == [op |-> op, status |-> error, value |-> None]

Returned(op, outcome) == [op |-> op, status |-> outcome.status, value |-> outcome.value]

Init ==
    /\ \E prior \in Priors : root = NewNode(prior, 0)
    /\ result = NoResult
    /\ n_fits = 0

\* BaseTree.fit(X, y, delta, prune)
Fit ==
    /\ result = NoResult
    /\ n_fits < MaxFits
    /\ n_fits' = n_fits + 1
    /\ \E t \in TrainSets(root.prior, IF n_fits = 0 THEN MaxCells ELSE MaxRefitCells),
          delta \in Deltas :
          IF delta < 0 \/ delta > 1
          THEN /\ result' = Raised("fit", "ValueError")
               /\ UNCHANGED root
          ELSE LET fitted == FitTree(root, t.X, t.y, delta,
                                     DefaultFeatureNames(Len(t.X[1])))
               IN /\ \E prune \in BOOLEAN :
                        root' = IF prune THEN Prune(fitted) ELSE fitted
                  /\ UNCHANGED result

\* BaseTree._prune called on the root
PruneTree ==
    /\ result = NoResult
    /\ IF IsFitted(root)
       THEN /\ root' = Prune(root)
            /\ UNCHANGED <<result, n_fits>>
       ELSE /\ result' = Raised("prune", "ValueError")
            /\ UNCHANGED <<root, n_fits>>

\* the caller takes the value or the exception of the last call
Return ==
    /\ result # NoResult
    /\ result' = NoResult
    /\ UNCHANGED <<root, n_fits>>

\* BaseTree.predict(X)
PredictCall ==
    /\ result = NoResult
    /\ \E X \in QueryInputs : result' = Returned("predict", Predict(root, X))
    /\ UNCHANGED <<root, n_fits>>

\* BasePerpendicularTree.prediction_paths(X)
PredictionPathsCall ==
    /\ result = NoResult
    /\ \E X \in QueryInputs : result' = Returned("prediction_paths", PredictionPaths(root, X))
    /\ UNCHANGED <<root, n_fits>>

\* BaseTree.feature_importance()
FeatureImportanceCall ==
    /\ result = NoResult
    /\ result' = Returned("feature_importance", FeatureImportance(root))
    /\ UNCHANGED <<root, n_fits>>

Next ==
    \/ Fit
    \/ PruneTree
    \/ PredictCall
    \/ PredictionPathsCall
    \/ FeatureImportanceCall
    \/ Return

Spec == Init /\ [][Next]_vars


----------------------------------------------------------------------------
(* Vocabulary of the properties *)

\* the nodes of a tree, as a set and in pre-order
RECURSIVE Nodes(_)
Nodes(self) ==
    {self} \cup (IF self.child1 # None THEN Nodes(self.child1[1]) ELSE {})
           \cup (IF self.child2 # None THEN Nodes(self.child2[1]) ELSE {})

RECURSIVE NodeSeq(_)
NodeSeq(self) ==
    <<self>> \o (IF self.child1 # None THEN NodeSeq(self.child1[1]) ELSE <<>>)
             \o (IF self.child2 # None THEN NodeSeq(self.child2[1]) ELSE <<>>)

HasSplit(self) == self.split_value # None

ValidDeltas == {delta \in Deltas : delta >= 0 /\ delta <= 1}

\* the training sets fit can be called with in the current state
FitInputs == TrainSets(root.prior, IF n_fits = 0 THEN MaxCells ELSE MaxRefitCells)

CanFit == result = NoResult /\ n_fits < MaxFits

\* the caller holds no pending result: the next call starts from this tree
Idle == result = NoResult

\* the tree that fit(t.X, t.y, delta) leaves in the root
Fitted(t, delta) == FitTree(root, t.X, t.y, delta, DefaultFeatureNames(Len(t.X[1])))

\* query matrices without NaN entries
FiniteQueryInputs ==
    {X \in QueryInputs : \A i \in 1..Len(X) : \A j \in 1..Len(X[i]) : X[i][j] # NaN}

\* the route of one query row from a node downwards: the steps taken and the
\* leaf reached (None when the row satisfies neither comparison of a node)
RECURSIVE Route(_, _)
Route(self, row) ==
    IF ~HasSplit(self)
    THEN [steps |-> <<>>, leaf |-> Some(self)]
    ELSE LET x == row[self.split_dimension + 1]
             step(right) == <<self.split_dimension, self.split_feature_name,
                              self.split_value, right>>
             below == Route(IF 2 * x < self.split_value[1]
                            THEN self.child1[1] ELSE self.child2[1], row)
         IN IF x = NaN
            THEN [steps |-> <<>>, leaf |-> None]
            ELSE [steps |-> <<step(2 * x >= self.split_value[1])>> \o below.steps,
                  leaf |-> below.leaf]

\* the log-likelihoods of the legal candidate splits of a node fitted on the
\* rows self.active of (X, y), over all dimensions
CandidateLogPs(self, X, y) ==
    LET Active(i) == i \in self.active
        Sorted(dim) == SelectSeq(ArgSort(X, dim), Active)
        Values(dim) == Tuple([p \in 1..Len(Sorted(dim)) |-> X[Sorted(dim)[p]][dim + 1]])
        LogPs(dim) == ComputeLogPDataSplit(self, Take(y, Sorted(dim)),
                                           SplitIndices(Values(dim)), Len(X[1]))
    IN UNION {{LogPs(dim)[i] : i \in 1..Len(SplitIndices(Values(dim)))}
              : dim \in 0..(Len(X[1]) - 1)}

NoSplitLogP(self, X, y) ==
    LET Active(i) == i \in self.active
    IN ComputeLogPDataNoSplit(self, Take(y, SelectSeq(ArgSort(X, 0), Active)))

----------------------------------------------------------------------------
(* C1 *)

\* C1: pruning never changes a prediction: for every fitted tree and every
\* query matrix, predict on the pruned tree returns what predict returns on
\* the tree before pruning.
C1_PruneKeepsPredictions ==
    (Idle /\ IsFitted(root)) =>
        \A X \in FiniteQueryInputs : Predict(Prune(root), X) = Predict(root, X)

----------------------------------------------------------------------------
(* C2 *)

\* every node that carries a split records a split likelihood above its
\* no-split likelihood
SplitsImprove(tree) ==
    \A n \in Nodes(tree) :
        HasSplit(n) => /\ n.child1 # None /\ n.child2 # None
                       /\ n.best_log_p_data_split[1] > n.log_p_data_no_split[1]

\* every node fitted on (X, y) none of whose candidate splits beats its
\* no-split likelihood is a leaf
RECURSIVE NoGainIsLeaf(_, _, _)
NoGainIsLeaf(self, X, y) ==
    IF \A c \in CandidateLogPs(self, X, y) : c <= NoSplitLogP(self, X, y)
    THEN ~HasSplit(self)
    ELSE HasSplit(self) => /\ NoGainIsLeaf(self.child1[1], X, y)
                           /\ NoGainIsLeaf(self.child2[1], X, y)

\* C2: monotonic acceptance: after fit returns, every node with a split has
\* best_log_p_data_split > log_p_data_no_split, and every node for which no
\* candidate split beats the no-split likelihood is a leaf.
C2_MonotonicAcceptance ==
    CanFit =>
        \A t \in FitInputs, delta \in ValidDeltas :
            /\ SplitsImprove(Fitted(t, delta))
            /\ NoGainIsLeaf(Fitted(t, delta), t.X, t.y)

\* the same for the first fit of a root
C2_FirstFit == IsFitted(root) \/ C2_MonotonicAcceptance

----------------------------------------------------------------------------
(* C3 *)

\* the thresholds of the internal nodes of a tree fitted on X separate the
\* training rows of child1 from those of child2
RECURSIVE ThresholdsSeparate(_, _)
ThresholdsSeparate(self, X) ==
    HasSplit(self) =>
        /\ self.split_dimension \in 0..(Len(X[1]) - 1)
        /\ \A i \in self.child1[1].active :
               2 * X[i][self.split_dimension + 1] < self.split_value[1]
        /\ \A i \in self.child2[1].active :
               2 * X[i][self.split_dimension + 1] > self.split_value[1]
        /\ ThresholdsSeparate(self.child1[1], X)
        /\ ThresholdsSeparate(self.child2[1], X)

\* C3: split threshold placement: in a tree fitted to an integer-typed
\* matrix, split_dimension is a column of the matrix and split_value lies
\* strictly between the training values sent to child1 and those sent to
\* child2.
C3_ThresholdPlacement ==
    (CanFit /\ ~IsFitted(root)) =>
        \A t \in FitInputs, delta \in ValidDeltas :
            ThresholdsSeparate(Fitted(t, delta), t.X)

----------------------------------------------------------------------------
(* C4 *)

\* the indices computed at an internal node partition the rows of X by the
\* threshold
PartitionsRows(self, X) ==
    LET indices == ComputeChild1AndChild2Indices(self, X)
        In1(i) == \E p \in 1..Len(indices[1]) : indices[1][p] = i
        In2(i) == \E p \in 1..Len(indices[2]) : indices[2][p] = i
    IN /\ Len(indices[1]) + Len(indices[2]) = Len(X)
       /\ \A i \in 1..Len(X) : In1(i) # In2(i)

\* C4: partition completeness at prediction: every internal node sends each
\* query row to exactly one child, and predict returns for each row the
\* prediction of the leaf the row reaches.
C4_PartitionAtPrediction ==
    (Idle /\ IsFitted(root)) =>
        \A X \in {Q \in QueryInputs : Some(Len(Q[1])) = root.n_dim} :
            /\ \A n \in Nodes(root) : HasSplit(n) => PartitionsRows(n, X)
            /\ Predict(root, X).status = "ok"
            /\ Len(Predict(root, X).value) = Len(X)
            /\ \A i \in 1..Len(X) :
                   /\ Route(root, X[i]).leaf # None
                   /\ Predict(root, X).value[i] = PredictLeaf(Route(root, X[i]).leaf[1])

----------------------------------------------------------------------------
(* C5 *)

\* C5: pruning idempotence: pruning a pruned tree changes nothing, and a
\* pruned tree has no internal node with two leaf children that predict the
\* same.
C5_PruneIdempotent ==
    (Idle /\ IsFitted(root)) =>
        /\ Prune(Prune(root)) = Prune(root)
        /\ \A n \in Nodes(Prune(root)) :
               (HasSplit(n) /\ ~HasSplit(n.child1[1]) /\ ~HasSplit(n.child2[1]))
                   => PredictLeaf(n.child1[1]) # PredictLeaf(n.child2[1])

\* a tree of depth 2 that pruning collapses into a single leaf
C5_Witness ==
    /\ IsFitted(root)
    /\ GetDepth(root) = 2
    /\ ~HasSplit(Prune(root))

----------------------------------------------------------------------------
(* C6 *)

\* C6: leaf/split consistency: in every fitted node split_value, child1 and
\* child2 are null together, and a leaf has split_dimension -1 and null
\* split_feature_name, log_p_data_no_split and best_log_p_data_split.
C6_LeafSplitConsistency ==
    \A n \in Nodes(root) :
        /\ (n.split_value = None) = (n.child1 = None)
        /\ (n.child1 = None) = (n.child2 = None)
        /\ n.split_value = None =>
               /\ n.split_dimension = -1
               /\ n.split_feature_name = None
               /\ n.log_p_data_no_split = None
               /\ n.best_log_p_data_split = None

\* a fitted tree holding both kinds of node below the root: child1 is a
\* leaf and child2 carries a split
C6_Witness ==
    /\ IsFitted(root)
    /\ HasSplit(root)
    /\ ~HasSplit(root.child1[1])
    /\ HasSplit(root.child2[1])

----------------------------------------------------------------------------
(* C7 *)

\* C7: training partition and n_data: the active row sets of the children of
\* every internal node are non-empty, disjoint and cover the node's active
\* rows; n_data of every node counts its active rows, so n_data of an internal
\* node is the sum over its children and that of the root is the number of
\* training rows.
C7_TrainingPartition ==
    IsFitted(root) =>
        \A n \in Nodes(root) :
            /\ n.n_data = Some(Cardinality(n.active))
            /\ HasSplit(n) =>
                   /\ n.child1[1].active # {}
                   /\ n.child2[1].active # {}
                   /\ n.child1[1].active \cap n.child2[1].active = {}
                   /\ n.child1[1].active \cup n.child2[1].active = n.active
                   /\ n.n_data[1] = n.child1[1].n_data[1] + n.child2[1].n_data[1]

\* the same before the root is fitted a second time
C7_FirstFit == n_fits <= 1 => C7_TrainingPartition

----------------------------------------------------------------------------
(* C8 *)

\* C8: prediction paths: for every query row, prediction_paths returns the
\* steps of the internal nodes on the row's route from the root, in
\* root-to-leaf order, with the direction True iff the row's value is >= the
\* threshold; the path is as long as the level of the leaf predict takes the
\* prediction from, and empty when the root is a leaf.
C8_PredictionPaths ==
    \A X \in QueryInputs :
        (Idle /\ PredictionPaths(root, X).status = "ok") =>
            /\ Len(PredictionPaths(root, X).value) = Len(X)
            /\ \A i \in 1..Len(X) :
                   LET path == PredictionPaths(root, X).value[i]
                       route == Route(root, X[i])
                   IN /\ path = route.steps
                      /\ route.leaf # None =>
                             /\ Len(path) = route.leaf[1].level
                             /\ Predict(root, X).value[i] = PredictLeaf(route.leaf[1])
                      /\ ~HasSplit(root) => path = <<>>

\* prediction_paths has returned a path of two steps
C8_Witness ==
    /\ result.op = "prediction_paths"
    /\ result.status = "ok"
    /\ \E i \in 1..Len(result.value) : Len(result.value[i]) = 2

----------------------------------------------------------------------------
(* C9 *)

\* the sum of the likelihood gains of the internal nodes split on dimension k
GainOf(tree, k) ==
    LET nodes == NodeSeq(tree)
    IN SumSeq(Tuple([p \in 1..Len(nodes) |->
                       IF HasSplit(nodes[p]) /\ nodes[p].split_dimension = k
                       THEN nodes[p].best_log_p_data_split[1]
                            - nodes[p].log_p_data_no_split[1]
                       ELSE 0]))

\* C9: feature importance: on a tree with at least one split,
\* feature_importance returns for each dimension the sum of the gains of the
\* internal nodes split on it, divided by the sum over all dimensions; every
\* gain is positive, so the entries are non-negative, zero for dimensions
\* never split on, and sum to 1.
C9_FeatureImportance ==
    (IsFitted(root) /\ HasSplit(root)) =>
        LET importance == FeatureImportance(root)
        IN /\ importance.status = "ok"
           /\ Len(importance.value.sums) = root.n_dim[1]
           /\ \A k \in 1..root.n_dim[1] :
                  /\ importance.value.sums[k] = GainOf(root, k - 1)
                  /\ importance.value.sums[k] >= 0
                  /\ (\A n \in Nodes(root) : n.split_dimension # k - 1)
                         => importance.value.sums[k] = 0
           /\ \A n \in Nodes(root) :
                  HasSplit(n) => n.best_log_p_data_split[1] > n.log_p_data_no_split[1]
           /\ importance.value.total = SumSeq(importance.value.sums)
           /\ importance.value.total > 0

\* the same before the root is fitted a second time
C9_FirstFit == n_fits <= 1 => C9_FeatureImportance

----------------------------------------------------------------------------
(* C10 *)

QueryOps == {"predict", "prediction_paths", "feature_importance"}

\* every query on an unfitted root and every predict / prediction_paths with
\* a wrong number of columns raises the ValueError of _ensure_is_fitted
QueriesRejected ==
    /\ \A X \in QueryInputs :
           (Idle /\ (root.posterior = None \/ Some(Len(X[1])) # root.n_dim)) =>
               /\ Predict(root, X) = Failure("ValueError")
               /\ PredictionPaths(root, X) = Failure("ValueError")
    /\ root.posterior = None => FeatureImportance(root) = Failure("ValueError")

\* C10: query preconditions: the queries fail on a root that was never
\* fitted, predict and prediction_paths fail on a matrix whose column count
\* differs from n_dim, and a failing query leaves the tree unchanged.
C10_QueryPreconditions ==
    /\ []QueriesRejected
    /\ [][(result'.op \in QueryOps /\ result'.status # "ok") => root' = root]_vars

\* predict has failed on a fitted tree with a split
C10_Witness ==
    /\ result.op = "predict"
    /\ result.status = "ValueError"
    /\ IsFitted(root)
    /\ HasSplit(root)

----------------------------------------------------------------------------
(* C11 *)

\* the tree that fit(t.X, t.y, delta) leaves in a root constructed afresh with
\* the prior of the current root
FittedFresh(t, delta) ==
    FitTree(NewNode(root.prior, root.level), t.X, t.y, delta,
            DefaultFeatureNames(Len(t.X[1])))

\* C11: fit depends only on its arguments: the tree fit leaves in the root is
\* the tree it leaves in a fresh, unfitted root (same splits, thresholds,
\* children, n_data and recorded likelihoods), whatever the root was fitted
\* to before and whether or not it was pruned; in particular a fit that finds
\* no acceptable split at the root leaves the root a leaf.
C11_FitDependsOnlyOnArguments ==
    CanFit =>
        \A t \in FitInputs, delta \in ValidDeltas :
            /\ Fitted(t, delta) = FittedFresh(t, delta)
            /\ ~HasSplit(FittedFresh(t, delta)) => ~HasSplit(Fitted(t, delta))

----------------------------------------------------------------------------
(* C12 *)

\* the candidate splits of a node fitted on the rows self.active of (X, y):
\* for every dimension, the positions of the node's rows sorted by that
\* dimension after which the value changes, each with its split likelihood
\* and the rows it sends to child1
SplitCandidates(self, X, y) ==
    LET Active(i) == i \in self.active
        Sorted(dim) == SelectSeq(ArgSort(X, dim), Active)
        Values(dim) == Tuple([p \in 1..Len(Sorted(dim)) |-> X[Sorted(dim)[p]][dim + 1]])
        Legal(dim) == {s \in 1..(Len(Sorted(dim)) - 1) : Values(dim)[s] # Values(dim)[s + 1]}
        LogPs(dim) == ComputeLogPDataSplit(self, Take(y, Sorted(dim)),
                                           SplitIndices(Values(dim)), Len(X[1]))
        Rank(dim, s) == 1 + Cardinality({r \in Legal(dim) : r < s})
    IN UNION {{[dimension |-> dim, index |-> s, log_p |-> LogPs(dim)[Rank(dim, s)],
                left |-> {Sorted(dim)[p] : p \in 1..s}] : s \in Legal(dim)}
              : dim \in 0..(Len(X[1]) - 1)}

\* candidate c comes before candidate e in the order of the search: smaller
\* dimension first, then smaller position
SearchedBefore(c, e) ==
    \/ c.dimension < e.dimension
    \/ (c.dimension = e.dimension /\ c.index < e.index)

\* the candidates of maximal split likelihood
BestCandidates(cands) == {c \in cands : \A e \in cands : e.log_p <= c.log_p}

\* the first of the candidates of maximal split likelihood
FirstBest(cands) ==
    CHOOSE c \in BestCandidates(cands) :
        \A e \in BestCandidates(cands) : e = c \/ SearchedBefore(c, e)

\* _fit searches a child for a split when the child has more than one row
\* and more than one distinct target
IsSearched(self, y) ==
    /\ Cardinality(self.active) > 1
    /\ Cardinality({y[i] : i \in self.active}) > 1

\* a node fitted on (X, y) one of whose candidates beats the no-split
\* likelihood is split at the first candidate of maximal likelihood, and so
\* are the nodes below it that were searched
RECURSIVE SelectsFirstBest(_, _, _)
SelectsFirstBest(self, X, y) ==
    LET cands == SplitCandidates(self, X, y)
        best == FirstBest(cands)
    IN /\ \A dim \in 0..(Len(X[1]) - 1) :
              Cardinality({X[i][dim + 1] : i \in self.active}) = 1
                  => \A c \in cands : c.dimension # dim
       /\ (\E c \in cands : c.log_p > NoSplitLogP(self, X, y)) =>
              /\ HasSplit(self)
              /\ self.split_dimension = best.dimension
              /\ self.best_log_p_data_split = Some(best.log_p)
              /\ self.child1[1].active = best.left
              /\ self.child2[1].active = self.active \ best.left
              /\ IsSearched(self.child1[1], y) => SelectsFirstBest(self.child1[1], X, y)
              /\ IsSearched(self.child2[1], y) => SelectsFirstBest(self.child2[1], X, y)

\* C12: split selection and tie-break: at every node fit searches, among the
\* legal candidate positions of all dimensions, the split taken has maximal
\* split likelihood, and among several candidates of exactly that likelihood
\* it is the one of the smallest dimension and, within it, the smallest
\* position; a dimension whose active values are all equal contributes no
\* candidate.
C12_SplitSelection ==
    CanFit =>
        \A t \in FitInputs, delta \in ValidDeltas :
            SelectsFirstBest(Fitted(t, delta), t.X, t.y)

\* the root was split by a fit on (X, y) in which several candidates had the
\* maximal likelihood, Tied(c, e) holding of two of them
SplitOnTie(Tied(_, _)) ==
    /\ n_fits = 1
    /\ HasSplit(root)
    /\ \E t \in TrainSets(root.prior, MaxCells), delta \in ValidDeltas :
           /\ FitTree(NewNode(root.prior, 0), t.X, t.y, delta,
                      DefaultFeatureNames(Len(t.X[1]))) = root
           /\ \E c, e \in BestCandidates(SplitCandidates(root, t.X, t.y)) : Tied(c, e)

\* the root was split where two positions of one dimension tied for the
\* maximal likelihood
C12_Witness ==
    LET SameDimension(c, e) == c.dimension = e.dimension /\ c.index # e.index
    IN SplitOnTie(SameDimension)

\* the root was split where candidates of two dimensions tied for the
\* maximal likelihood
C12_TieAcrossDimensions ==
    LET OtherDimension(c, e) == c.dimension # e.dimension
    IN SplitOnTie(OtherDimension)

----------------------------------------------------------------------------
(* C13 *)

\* the targets of the rows a node was fitted on or sealed with
TargetSlice(self, y) ==
    LET Active(i) == i \in self.active
    IN Take(y, SelectSeq(Tuple([i \in 1..Len(y) |-> i]), Active))

\* every node of a tree fitted on targets y has a posterior, and it is the
\* update of the node's own prior with the node's own targets
PosteriorsConsistent(tree, y) ==
    \A n \in Nodes(tree) :
        /\ n.posterior # None
        /\ n.posterior = ComputePosterior(n, TargetSlice(n, y), 1)

\* C13: posterior consistency across sealing and recursion: after fit with
\* any delta in [0, 1], no node has a null posterior and the posterior of
\* every node is the model family's update of that node's own prior with that
\* node's own target slice, whether the node was sealed as a leaf by its
\* parent or fitted by a recursive call.
C13_PosteriorConsistency ==
    (CanFit /\ ~IsFitted(root)) =>
        \A t \in FitInputs, delta \in ValidDeltas :
            PosteriorsConsistent(Fitted(t, delta), t.y)

\* the same for fits with delta = 0, where every child gets the prior of its
\* parent
C13_WithoutDelta ==
    (CanFit /\ ~IsFitted(root)) =>
        \A t \in FitInputs : PosteriorsConsistent(Fitted(t, 0), t.y)

============================================================================
